---- MODULE Spec2Model ----
(***************************************************************************)
(* Model of the wine-cellar migration script (src/data/migrate.py) and of  *)
(* the PDF text-extraction dispatcher (src/scripts/ocr/rolm_ocr_service.py)*)
(*                                                                         *)
(* Python strings are modelled as sequences of one-character strings, so   *)
(* that int(), re.match() and f-string formatting are computed character   *)
(* by character and a parse/format round trip can fail.                    *)
(***************************************************************************)
EXTENDS Integers, Sequences, FiniteSets, TLC

VARIABLES
    \* ---- migrate.py: main() and the import stages
    pc,             \* position of main(): "start", "generate", "inventory", ...
    db,             \* the connection's view of the database (uncommitted included)
    committed,      \* what the database file holds (last commit)
    slots_filled,   \* import_inventory's local counter
    wines_added,    \* import_inventory's local counter
    rows_done,      \* rows read so far in the running stage
    last,           \* the inventory row just processed and what it attempted
    added,          \* import_reduce_now's / import_pairing_matrix's local counter
    generated,      \* how many times generate_slots has run
    \* ---- parse_location_range called on its own
    start_loc, end_loc, ret,
    \* ---- rolm_ocr_service.py
    HAS_PYMUPDF, HAS_EASYOCR, HAS_PDF2IMAGE, force_ocr, text_length, ocr

vars == <<pc, db, committed, slots_filled, wines_added, rows_done, last, added, generated,
          start_loc, end_loc, ret,
          HAS_PYMUPDF, HAS_EASYOCR, HAS_PDF2IMAGE, force_ocr, text_length, ocr>>

migrateVars == <<pc, db, committed, slots_filled, wines_added, rows_done, last, added,
                generated>>
parseVars == <<start_loc, end_loc, ret>>
ocrVars == <<HAS_PYMUPDF, HAS_EASYOCR, HAS_PDF2IMAGE, force_ocr, text_length, ocr>>

----------------------------------------------------------------------------
(* Bounds of the model *)

\* fridge numbers 0..MaxNum are offered to parse_location_range on its own
MaxNum == 11
\* cellar rows and columns 0..MaxRC are offered to parse_location_range on its own
MaxRC == 3
\* inventory rows in the spreadsheet
MaxRows == 2
\* rows of the reduce-now CSV
MaxReduceRows == 1
\* cells of the pairing matrix
MaxCells == 1
\* the largest bottle_count of an inventory row
MaxCount == 3
\* runs of generate_slots after the one main() makes
MaxRegens == 1

----------------------------------------------------------------------------
(* Program constants *)

\* range(1, 10): fridge slots F1..F9
FridgeSlots == 9
\* i <= 4: fridge row 1 holds F1..F4
FridgeRowOne == 4
\* range(1, 20): cellar rows 1..19
CellarRows == 19
\* max_col = 7 if row == 1
RowOneCols == 7
\* ... else 9
OtherRowCols == 9
\* text_length > 100
TextThreshold == 100

\* a local variable that was never assigned
Unbound == "unbound"

----------------------------------------------------------------------------
(* Python string primitives *)

Digits == {"0", "1", "2", "3", "4", "5", "6", "7", "8", "9"}

DigitChars == <<"0", "1", "2", "3", "4", "5", "6", "7", "8", "9">>

DigitVal(c) == (CHOOSE i \in 1..10 : DigitChars[i] = c) - 1

IsDigits(s) == Len(s) >= 1 /\ \A i \in 1..Len(s) : s[i] \in Digits

RECURSIVE DigitsVal(_)
DigitsVal(s) ==
    IF s = <<>> THEN 0
    ELSE DigitsVal(SubSeq(s, 1, Len(s) - 1)) * 10 + DigitVal(s[Len(s)])

\* the strings int() accepts, over the alphabet of the model: an optional
\* sign followed by one or more digits
IntLiteral(s) ==
    \/ IsDigits(s)
    \/ Len(s) >= 2 /\ s[1] \in {"+", "-"} /\ IsDigits(Tail(s))

\* int(s) for a string int() accepts
IntOf(s) ==
    IF s[1] = "-" THEN 0 - DigitsVal(Tail(s))
    ELSE IF s[1] = "+" THEN DigitsVal(Tail(s))
    ELSE DigitsVal(s)

RECURSIVE NatStr(_)
NatStr(n) ==
    IF n < 10 THEN <<DigitChars[n + 1]>>
    ELSE NatStr(n \div 10) \o <<DigitChars[(n % 10) + 1]>>

\* f'{i}' for an int
Str(n) == IF n < 0 THEN <<"-">> \o NatStr(0 - n) ELSE NatStr(n)

\* s[1:]
Slice1(s) == IF Len(s) <= 1 THEN <<>> ELSE SubSeq(s, 2, Len(s))

\* s[:n] for any int n (a negative n counts from the end)
SliceTo(s, n) ==
    IF n >= 0 THEN SubSeq(s, 1, IF n < Len(s) THEN n ELSE Len(s))
    ELSE SubSeq(s, 1, Len(s) + n)

\* s.startswith('F')
StartsWithF(s) == Len(s) >= 1 /\ s[1] = "F"

\* the number of digits of s from position i on (the greedy \d+)
RECURSIVE DigitRun(_, _)
DigitRun(s, i) ==
    IF i <= Len(s) /\ s[i] \in Digits THEN 1 + DigitRun(s, i + 1) ELSE 0

\* re.match(r'R(\d+)C(\d+)', s): anchored at the start only, so trailing
\* characters are ignored
ReMatch(s) ==
    LET n1 == DigitRun(s, 2)
        n2 == DigitRun(s, 3 + n1)
    IN  IF /\ Len(s) >= 1 /\ s[1] = "R"
           /\ n1 >= 1
           /\ Len(s) >= 2 + n1 /\ s[2 + n1] = "C"
           /\ n2 >= 1
        THEN [matched |-> TRUE,
              row |-> DigitsVal(SubSeq(s, 2, 1 + n1)),
              col |-> DigitsVal(SubSeq(s, 3 + n1, 2 + n1 + n2))]
        ELSE [matched |-> FALSE, row |-> 0, col |-> 0]

\* f'F{i}'
FCode(i) == <<"F">> \o Str(i)

\* f'R{row}C{col}'
RCode(row, col) == <<"R">> \o Str(row) \o <<"C">> \o Str(col)

\* the outcome of a call: a returned value, or an exception left unhandled
Returned(v) == [raised |-> FALSE, value |-> v]

Raised == [raised |-> TRUE, value |-> <<>>]

\* a spreadsheet cell: NaN (empty), or a value
NaN == <<>>

Cell(v) == <<v>>

\* pd.isna(cell) / pd.notna(cell)
IsNa(cell) == cell = NaN

ValueOf(cell) == cell[1]

\* a nullable database column
None == <<>>

Some(v) == <<v>>

----------------------------------------------------------------------------
(* parse_location_range *)

\* pd.isna(end_loc) or not end_loc: the NaN cell and the empty string
EndAbsent(end_cell) == IsNa(end_cell) \/ ValueOf(end_cell) = <<>>

\* range(start_num, end_num) in place of range(start_num, end_num + 1)
FridgeRangeExclusive(s, e) ==
    IF ~IntLiteral(Slice1(s)) \/ ~IntLiteral(Slice1(e)) THEN Raised
    ELSE LET start_num == IntOf(Slice1(s))
             end_num == IntOf(Slice1(e))
         IN  Returned([k \in 1..(end_num - start_num) |-> FCode(start_num + k - 1)])

\* int(start_loc[1:]), int(end_loc[1:]), range(start_num, end_num + 1)
FridgeRange(s, e) ==
    IF ~IntLiteral(Slice1(s)) \/ ~IntLiteral(Slice1(e)) THEN Raised
    ELSE LET start_num == IntOf(Slice1(s))
             end_num == IntOf(Slice1(e))
         IN  Returned([k \in 1..(end_num + 1 - start_num) |-> FCode(start_num + k - 1)])

\* the columns are spanned from column 1 in place of start_col
CellarRangeFromOne(s, e) ==
    LET start_match == ReMatch(s)
        end_match == ReMatch(e)
    IN  IF ~start_match.matched \/ ~end_match.matched THEN Returned(<<s>>)
        ELSE IF start_match.row = end_match.row
        THEN Returned([k \in 1..end_match.col |-> RCode(start_match.row, k)])
        ELSE Returned(<<s>>)

\* the columns are spanned whether or not the rows agree
CellarRangeAnyRow(s, e) ==
    LET start_match == ReMatch(s)
        end_match == ReMatch(e)
    IN  IF ~start_match.matched \/ ~end_match.matched THEN Returned(<<s>>)
        ELSE Returned([k \in 1..(end_match.col + 1 - start_match.col) |->
                          RCode(start_match.row, start_match.col + k - 1)])

\* the two re.match calls and the same-row / multi-row branches
CellarRange(s, e) ==
    LET start_match == ReMatch(s)
        end_match == ReMatch(e)
    IN  IF ~start_match.matched \/ ~end_match.matched THEN Returned(<<s>>)
        ELSE IF start_match.row = end_match.row
        THEN Returned([k \in 1..(end_match.col + 1 - start_match.col) |->
                          RCode(start_match.row, start_match.col + k - 1)])
        ELSE Returned(<<s>>)

\* s is the start string, end_cell the loc_end cell of the row
parse_location_range(s, end_cell) ==
    IF EndAbsent(end_cell) THEN Returned(<<s>>)
    ELSE IF StartsWithF(s) THEN FridgeRange(s, ValueOf(end_cell))
    ELSE CellarRange(s, ValueOf(end_cell))

----------------------------------------------------------------------------
(* The database: the four tables main() fills.  A slot row carries the     *)
(* columns generate_slots writes and the wine_id column import_inventory   *)
(* updates; a wine row carries the columns import_reduce_now reads back.   *)

EmptyDb == [slots |-> {}, wines |-> <<>>, reduce_now |-> {}, pairing_rules |-> {}]

\* the UNIQUE constraint on slots.location_code (schema.sql): a row with
\* this code is already there
LocationCodeTaken(slots, code) == \E s \in slots : s.location_code = code

\* the row INSERT INTO slots (zone, location_code, row_num, col_num) writes;
\* wine_id takes its default
SlotRow(zone, code, row, col) ==
    [zone |-> zone, location_code |-> code, row_num |-> row, col_num |-> col,
     wine_id |-> None]

\* INSERT OR REPLACE on a conflict: the row in conflict is deleted and the
\* new row is inserted
OnConflictReplace(slots, new) ==
    { s \in slots : s.location_code # new.location_code } \cup {new}

\* INSERT OR IGNORE on a conflict: the statement is skipped
OnConflictIgnore(slots, new) == slots

\* for i in range(1, 10), from i on: INSERT OR IGNORE INTO slots
RECURSIVE FridgeLoop(_, _)
FridgeLoop(slots, i) ==
    IF i > FridgeSlots THEN slots
    ELSE LET new == SlotRow("fridge", FCode(i), IF i <= FridgeRowOne THEN 1 ELSE 2, i)
         IN  IF LocationCodeTaken(slots, new.location_code)
             THEN FridgeLoop(OnConflictIgnore(slots, new), i + 1)
             ELSE FridgeLoop(slots \cup {new}, i + 1)

max_col(row) == IF row = 1 THEN RowOneCols ELSE OtherRowCols

\* for col in range(1, max_col + 1), from col on: INSERT OR IGNORE INTO slots
RECURSIVE ColumnLoop(_, _, _)
ColumnLoop(slots, row, col) ==
    IF col > max_col(row) THEN slots
    ELSE LET new == SlotRow("cellar", RCode(row, col), row, col)
         IN  IF LocationCodeTaken(slots, new.location_code)
             THEN ColumnLoop(OnConflictIgnore(slots, new), row, col + 1)
             ELSE ColumnLoop(slots \cup {new}, row, col + 1)

\* for row in range(1, 20), from row on
RECURSIVE CellarLoop(_, _)
CellarLoop(slots, row) ==
    IF row > CellarRows THEN slots
    ELSE CellarLoop(ColumnLoop(slots, row, 1), row + 1)

generate_slots(slots) == CellarLoop(FridgeLoop(slots, 1), 1)

\* cursor.rowcount of UPDATE slots ... WHERE location_code = loc
RowCount(slots, loc) == Cardinality({ s \in slots : s.location_code = loc })

\* an upsert in place of the UPDATE: a row is made up when none matches
UpdateOrInsertSlot(slots, wine_id, loc) ==
    IF \E s \in slots : s.location_code = loc
    THEN { IF s.location_code = loc THEN [s EXCEPT !.wine_id = Some(wine_id)] ELSE s :
           s \in slots }
    ELSE slots \cup {[zone |-> "cellar", location_code |-> loc, row_num |-> 0,
                      col_num |-> 0, wine_id |-> Some(wine_id)]}

\* UPDATE slots SET wine_id = ? WHERE location_code = ?
UpdateSlot(slots, wine_id, loc) ==
    { IF s.location_code = loc THEN [s EXCEPT !.wine_id = Some(wine_id)] ELSE s :
      s \in slots }

\* for i, loc in enumerate(locs): UPDATE; if cursor.rowcount > 0: slots_filled += 1
RECURSIVE AssignLoop(_, _, _, _)
AssignLoop(slots, filled, wine_id, locs) ==
    IF locs = <<>> THEN [slots |-> slots, filled |-> filled]
    ELSE AssignLoop(UpdateSlot(slots, wine_id, Head(locs)),
                    IF RowCount(slots, Head(locs)) > 0 THEN filled + 1 ELSE filled,
                    wine_id, Tail(locs))

\* int(row[...]) if pd.notna(row[...]) else None, for a cell holding text
IntOrNone(cell) ==
    IF IsNa(cell) THEN Returned(None)
    ELSE IF IntLiteral(ValueOf(cell)) THEN Returned(Some(IntOf(ValueOf(cell))))
    ELSE Raised

\* locations[:bottle_count]
UpTo(locations, bottle_count) == SliceTo(locations, bottle_count)

\* what one iteration of import_inventory's loop did: the wine it inserted,
\* the bottle_count it read, the codes parse_location_range gave it and the
\* codes it ran the UPDATE for
NoRow == [processed |-> FALSE, raised |-> FALSE, wine_id |-> 0, located |-> FALSE,
          bottle_count |-> 0, locations |-> <<>>, attempted |-> <<>>]

\* one iteration of import_inventory's loop over the rows of the sheet:
\* the outcome, the database and the counter after it
InventoryRow(d, filled, row) ==
    LET vintage == IntOrNone(row.vintage)
        wines == Append(d.wines, [wine_name |-> row.wine_name,
                                  vintage |-> vintage.value])
        wine_id == Len(wines)
        info == [NoRow EXCEPT !.processed = TRUE, !.wine_id = wine_id]
        failed == [raised |-> TRUE, db |-> d, filled |-> filled,
                   info |-> [NoRow EXCEPT !.processed = TRUE, !.raised = TRUE]]
    IN  IF vintage.raised THEN failed
        ELSE IF IsNa(row.location)
        THEN [raised |-> FALSE, db |-> [d EXCEPT !.wines = wines],
              filled |-> filled, info |-> info]
        ELSE LET parsed == parse_location_range(ValueOf(row.location), row.loc_end)
             IN  IF parsed.raised \/ IsNa(row.bottle_count) THEN failed
                 ELSE LET bottle_count == ValueOf(row.bottle_count)
                          locs == UpTo(parsed.value, bottle_count)
                          a == AssignLoop(d.slots, filled, wine_id, locs)
                      IN  [raised |-> FALSE,
                           db |-> [d EXCEPT !.wines = wines, !.slots = a.slots],
                           filled |-> a.filled,
                           info |-> [info EXCEPT !.located = TRUE,
                                                 !.bottle_count = bottle_count,
                                                 !.locations = parsed.value,
                                                 !.attempted = locs]]

\* SELECT id FROM wines WHERE wine_name = ? AND
\*     (vintage = ? OR (vintage IS NULL AND ? IS NULL))
MatchingWines(wines, name, vintage) ==
    { i \in 1..Len(wines) :
        /\ wines[i].wine_name = name
        /\ \/ wines[i].vintage # None /\ vintage # None /\ wines[i].vintage = vintage
           \/ wines[i].vintage = None /\ vintage = None }

\* INSERT OR REPLACE INTO reduce_now (wine_id, priority, reduce_reason); the
\* row it replaces is the one of the same wine
InsertOrReplaceReduceNow(reduce_now, wine_id, priority) ==
    { r \in reduce_now : r.wine_id # wine_id }
        \cup {[wine_id |-> wine_id, priority |-> priority]}

\* INSERT OR REPLACE INTO pairing_rules (food_signal, wine_style_bucket,
\* match_level); the row it replaces is the one of the same signal and bucket
InsertOrReplacePairingRule(rules, food_signal, wine_style, match_level) ==
    { r \in rules : ~(r.food_signal = food_signal /\ r.wine_style_bucket = wine_style) }
        \cup {[food_signal |-> food_signal, wine_style_bucket |-> wine_style,
               match_level |-> match_level]}

MatchLevels == {"primary", "good", "fallback"}

----------------------------------------------------------------------------
(* parse_location_range called on its own *)

\* strings that are no location code, or not the canonical spelling of one
OddCodes ==
    { <<>>, <<"F">>, <<"F", "x">>, <<"F", "0", "3">>, <<"F", "-", "1">>,
      <<"F", "3", "x">>, <<"X", "6">>, <<"R", "1">>, <<"R", "1", "C">>,
      <<"R", "x", "C", "1">>, <<"R", "1", "C", "x">>, <<"R", "1", "C", "2", "x">>,
      <<"R", "0", "1", "C", "0", "2">>, <<"R", "1", "C", "1", "0">>,
      <<"C", "1", "R", "1">>, <<"x">> }

FridgeCodes == { FCode(i) : i \in 0..MaxNum }

CellarCodes == { RCode(r, c) : r \in 0..MaxRC, c \in 0..MaxRC }

ParseCodes == FridgeCodes \cup CellarCodes \cup OddCodes

NotCalled == [called |-> FALSE, raised |-> FALSE, value |-> <<>>]

IdleMigrate ==
    /\ pc = "idle"
    /\ db = <<>>
    /\ committed = <<>>
    /\ slots_filled = 0
    /\ wines_added = 0
    /\ rows_done = 0
    /\ added = 0
    /\ generated = 0
    /\ last = <<>>

IdleParse ==
    /\ start_loc = <<>>
    /\ end_loc = NaN
    /\ ret = NotCalled

IdleOcr ==
    /\ HAS_PYMUPDF = FALSE
    /\ HAS_EASYOCR = FALSE
    /\ HAS_PDF2IMAGE = FALSE
    /\ force_ocr = FALSE
    /\ text_length = 0
    /\ ocr = <<>>

InitParse ==
    /\ start_loc \in ParseCodes
    /\ end_loc \in {NaN} \cup { Cell(e) : e \in ParseCodes }
    /\ ret = NotCalled
    /\ IdleMigrate
    /\ IdleOcr

CallParse ==
    /\ ~ret.called
    /\ LET r == parse_location_range(start_loc, end_loc)
       IN  ret' = [called |-> TRUE, raised |-> r.raised, value |-> r.value]
    /\ UNCHANGED <<start_loc, end_loc>>
    /\ UNCHANGED migrateVars
    /\ UNCHANGED ocrVars

NextParse == CallParse

SpecParse == InitParse /\ [][NextParse]_vars

----------------------------------------------------------------------------
(* main(): the rows the input files can hold *)

WineNames == {"Merlot", "Rioja"}

VintageCells == {NaN, Cell(<<"2", "0", "2", "0">>), Cell(<<"n", "/", "a">>)}

\* F8..F10 runs past the fridge, R1C6..R1C8 past row 1 of the cellar
\* and R1C8 names no slot at all
LocationCells == {Cell(FCode(8)), Cell(RCode(1, 6)), Cell(RCode(1, 8))}

LocEndCells == {NaN, Cell(FCode(10)), Cell(RCode(1, 8))}

CountCells == {NaN} \cup { Cell(n) : n \in (0 - 1)..MaxCount }

\* the rows of the inventory sheet: without a location (loc_end and
\* bottle_count are then not read), and with one
InventoryRows ==
    [wine_name : {"Merlot"}, vintage : VintageCells, location : {NaN},
     loc_end : {NaN}, bottle_count : {NaN}]
    \cup [wine_name : {"Merlot"}, vintage : VintageCells, location : LocationCells,
          loc_end : LocEndCells, bottle_count : CountCells]

ReduceRows == [wine_name : WineNames, vintage : VintageCells, priority : {1}]

\* a cell of the pairing matrix; duplicated: its row or column label occurs
\* twice, so that df.loc[...] is a Series and its truth value raises
PairingCells ==
    [food_signal : {"beef"}, wine_style : {"red_full"},
     match_level : {NaN, Cell("primary"), Cell("avoid")},
     duplicated : BOOLEAN]

InitMigrate ==
    /\ pc = "start"
    /\ db = EmptyDb
    /\ committed = EmptyDb
    /\ slots_filled = 0
    /\ wines_added = 0
    /\ rows_done = 0
    /\ added = 0
    /\ generated = 0
    /\ last = NoRow

Init == InitMigrate /\ IdleParse /\ IdleOcr

\* an unhandled exception leaves main() through finally: conn.close(), which
\* drops what was not committed
Abort(info) ==
    /\ pc' = "aborted"
    /\ db' = committed
    /\ last' = info
    /\ UNCHANGED <<committed, slots_filled, wines_added, rows_done, added, generated>>
    /\ UNCHANGED <<parseVars, ocrVars>>

\* create_schema(conn): the tables exist and are empty
CreateSchema ==
    /\ pc = "start"
    /\ pc' = "generate"
    /\ UNCHANGED <<db, committed, slots_filled, wines_added, rows_done, last, added,
                   generated, parseVars, ocrVars>>

\* generate_slots(conn), as main() calls it
GenerateSlots ==
    /\ pc = "generate"
    /\ db' = [db EXCEPT !.slots = generate_slots(db.slots)]
    /\ committed' = db'
    /\ generated' = generated + 1
    /\ pc' = "inventory"
    /\ UNCHANGED <<slots_filled, wines_added, rows_done, last, added, parseVars,
                   ocrVars>>

\* inventory_path does not exist
InventoryMissing ==
    /\ pc = "inventory" /\ rows_done = 0
    /\ pc' = "reduce"
    /\ UNCHANGED <<db, committed, slots_filled, wines_added, rows_done, last, added,
                   generated, parseVars, ocrVars>>

\* import_inventory: one row of df.iterrows()
ImportInventoryRow ==
    /\ pc = "inventory" /\ rows_done < MaxRows
    /\ \E row \in InventoryRows :
         LET r == InventoryRow(db, slots_filled, row)
         IN  IF r.raised THEN Abort(r.info)
             ELSE /\ db' = r.db
                  /\ slots_filled' = r.filled
                  /\ wines_added' = wines_added + 1
                  /\ rows_done' = rows_done + 1
                  /\ last' = r.info
                  /\ UNCHANGED <<pc, committed, added, generated, parseVars, ocrVars>>

\* import_inventory returning without its conn.commit()
ImportInventoryNoCommit ==
    /\ pc = "inventory"
    /\ pc' = "reduce"
    /\ slots_filled' = 0
    /\ wines_added' = 0
    /\ rows_done' = 0
    /\ last' = NoRow
    /\ UNCHANGED <<db, committed, added, generated, parseVars, ocrVars>>

\* import_inventory: the rows are exhausted; conn.commit()
ImportInventoryCommit ==
    /\ pc = "inventory"
    /\ committed' = db
    /\ pc' = "reduce"
    /\ slots_filled' = 0
    /\ wines_added' = 0
    /\ rows_done' = 0
    /\ last' = NoRow
    /\ UNCHANGED <<db, added, generated, parseVars, ocrVars>>

\* reduce_path does not exist
ReduceMissing ==
    /\ pc = "reduce" /\ rows_done = 0
    /\ pc' = "pairing"
    /\ UNCHANGED <<db, committed, slots_filled, wines_added, rows_done, last, added,
                   generated, parseVars, ocrVars>>

\* import_reduce_now: one row of the CSV; fetchone() takes one of the wines
\* that match, in an order SQL leaves open
ImportReduceRow ==
    /\ pc = "reduce" /\ rows_done < MaxReduceRows
    /\ \E row \in ReduceRows :
         LET vintage == IntOrNone(row.vintage)
         IN  IF vintage.raised THEN Abort(NoRow)
             ELSE LET found == MatchingWines(db.wines, row.wine_name, vintage.value)
                  IN  /\ \/ /\ found = {}
                            /\ UNCHANGED <<db, added>>
                         \/ \E wine_id \in found :
                              /\ db' = [db EXCEPT !.reduce_now =
                                          InsertOrReplaceReduceNow(@, wine_id, row.priority)]
                              /\ added' = added + 1
                      /\ rows_done' = rows_done + 1
                      /\ UNCHANGED <<pc, committed, slots_filled, wines_added, last,
                                     generated, parseVars, ocrVars>>

\* import_reduce_now: the rows are exhausted; conn.commit()
ImportReduceCommit ==
    /\ pc = "reduce"
    /\ committed' = db
    /\ pc' = "pairing"
    /\ rows_done' = 0
    /\ added' = 0
    /\ UNCHANGED <<db, slots_filled, wines_added, last, generated, parseVars,
                   ocrVars>>

\* pairing_path does not exist
PairingMissing ==
    /\ pc = "pairing" /\ rows_done = 0
    /\ pc' = "summary"
    /\ UNCHANGED <<db, committed, slots_filled, wines_added, rows_done, last, added,
                   generated, parseVars, ocrVars>>

\* import_pairing_matrix: one cell of the matrix
ImportPairingCell ==
    /\ pc = "pairing" /\ rows_done < MaxCells
    /\ \E cell \in PairingCells :
         IF cell.duplicated THEN Abort(NoRow)
         ELSE /\ IF ~IsNa(cell.match_level) /\ ValueOf(cell.match_level) \in MatchLevels
                 THEN /\ db' = [db EXCEPT !.pairing_rules =
                                  InsertOrReplacePairingRule(@, cell.food_signal,
                                      cell.wine_style, ValueOf(cell.match_level))]
                      /\ added' = added + 1
                 ELSE UNCHANGED <<db, added>>
              /\ rows_done' = rows_done + 1
              /\ UNCHANGED <<pc, committed, slots_filled, wines_added, last, generated,
                             parseVars, ocrVars>>

\* import_pairing_matrix: the cells are exhausted; conn.commit()
ImportPairingCommit ==
    /\ pc = "pairing"
    /\ committed' = db
    /\ pc' = "summary"
    /\ rows_done' = 0
    /\ added' = 0
    /\ UNCHANGED <<db, slots_filled, wines_added, last, generated, parseVars,
                   ocrVars>>

\* the summary is printed; finally: conn.close()
Summary ==
    /\ pc = "summary"
    /\ pc' = "done"
    /\ db' = committed
    /\ UNCHANGED <<committed, slots_filled, wines_added, rows_done, last, added,
                   generated, parseVars, ocrVars>>

Next ==
    \/ CreateSchema
    \/ GenerateSlots
    \/ InventoryMissing
    \/ ImportInventoryRow
    \/ ImportInventoryCommit
    \/ ReduceMissing
    \/ ImportReduceRow
    \/ ImportReduceCommit
    \/ PairingMissing
    \/ ImportPairingCell
    \/ ImportPairingCommit
    \/ Summary

Spec == Init /\ [][Next]_vars

\* generate_slots(conn) run once more on the open connection, after
\* import_inventory has returned
RegenerateSlots ==
    /\ pc = "reduce"
    /\ generated <= MaxRegens
    /\ db' = [db EXCEPT !.slots = generate_slots(db.slots)]
    /\ committed' = db'
    /\ generated' = generated + 1
    /\ UNCHANGED <<pc, slots_filled, wines_added, rows_done, last, added, parseVars,
                   ocrVars>>

\* create_schema, generate_slots, import_inventory, and generate_slots again
\* on the table import_inventory has left
NextRegen ==
    \/ CreateSchema
    \/ GenerateSlots
    \/ ImportInventoryRow
    \/ ImportInventoryCommit
    \/ RegenerateSlots

SpecRegen == Init /\ [][NextRegen]_vars

----------------------------------------------------------------------------
(* rolm_ocr_service.py: the extraction dispatcher.  The backends are calls  *)
(* into external libraries; each is taken to return its success result.    *)

PyMuPdfResult == [success |-> TRUE, method |-> "pymupdf"]

EasyOcrResult == [success |-> TRUE, method |-> "easyocr"]

FailureResult ==
    [success |-> FALSE, error |-> "No PDF text extraction method available"]

\* check_dependencies()[0]
check_dependencies(has_pymupdf, has_easyocr, has_pdf2image) ==
    IF has_pymupdf THEN TRUE
    ELSE IF has_easyocr /\ has_pdf2image THEN TRUE
    ELSE FALSE

\* extract_text_from_pdf; result is its local variable, bound only inside
\* the first if, and len is len(result["full_text"].strip())
extract_text_from_pdf(has_pymupdf, has_easyocr, has_pdf2image, force, len) ==
    LET result == IF has_pymupdf /\ ~force THEN PyMuPdfResult ELSE Unbound
    IN  IF has_pymupdf /\ ~force /\ len > TextThreshold THEN Returned(result)
        ELSE IF has_easyocr /\ has_pdf2image THEN Returned(EasyOcrResult)
        ELSE IF has_pymupdf
        THEN (IF has_pymupdf /\ ~force THEN Returned(result) ELSE Raised)
        ELSE Returned(FailureResult)

TextLengths == {0, TextThreshold - 1, TextThreshold, TextThreshold + 1}

OcrNotCalled == [called |-> FALSE, raised |-> FALSE, value |-> <<>>]

InitOcr ==
    /\ HAS_PYMUPDF \in BOOLEAN
    /\ HAS_EASYOCR \in BOOLEAN
    /\ HAS_PDF2IMAGE \in BOOLEAN
    /\ force_ocr \in BOOLEAN
    /\ text_length \in TextLengths
    /\ ocr = OcrNotCalled
    /\ IdleMigrate
    /\ IdleParse

CallExtract ==
    /\ ~ocr.called
    /\ LET r == extract_text_from_pdf(HAS_PYMUPDF, HAS_EASYOCR, HAS_PDF2IMAGE,
                                      force_ocr, text_length)
       IN  ocr' = [called |-> TRUE, raised |-> r.raised, value |-> r.value]
    /\ UNCHANGED <<HAS_PYMUPDF, HAS_EASYOCR, HAS_PDF2IMAGE, force_ocr, text_length>>
    /\ UNCHANGED <<migrateVars, parseVars>>

NextOcr == CallExtract

SpecOcr == InitOcr /\ [][NextOcr]_vars

----------------------------------------------------------------------------
(* Claims about parse_location_range, checked under SpecParse *)

\* the location-code patterns of the specification, matched against the
\* whole string
FridgePattern(s) == StartsWithF(s) /\ IntLiteral(Slice1(s))

CellarPattern(s) ==
    /\ ReMatch(s).matched
    /\ Len(s) = 2 + DigitRun(s, 2) + DigitRun(s, 3 + DigitRun(s, 2))

\* the number of integers in lo..hi
SpanLen(lo, hi) == IF hi >= lo THEN hi + 1 - lo ELSE 0

EndGiven == ~IsNa(end_loc) /\ ValueOf(end_loc) # <<>>

end_str == ValueOf(end_loc)

\* C3: with a non-empty end_code, whenever start_code or end_code fails to
\* parse as a location code of the expected pattern (F<integer> for a start
\* beginning with F, R<row>C<col> otherwise), the call raises nothing and
\* returns [start_code].
C3_FailSoft ==
    (/\ ret.called
     /\ EndGiven
     /\ IF StartsWithF(start_loc)
        THEN ~FridgePattern(start_loc) \/ ~FridgePattern(end_str)
        ELSE ~CellarPattern(start_loc) \/ ~CellarPattern(end_str))
    => (~ret.raised /\ ret.value = <<start_loc>>)

\* C4: for start F<s> and end F<e>, the result is F<s>, F<s+1>, ..., F<e>:
\* one code for every integer of s..e, ascending, each the letter F followed
\* by the decimal numeral of its integer, whether or not it lies in 1..9.
C4_FridgeRange ==
    (ret.called /\ EndGiven /\ FridgePattern(start_loc) /\ FridgePattern(end_str))
    => LET s == IntOf(Slice1(start_loc))
           e == IntOf(Slice1(end_str))
       IN  /\ ~ret.raised
           /\ Len(ret.value) = SpanLen(s, e)
           /\ \A k \in 1..Len(ret.value) :
                 /\ ret.value[k] = <<"F">> \o Str(s + k - 1)
                 /\ FridgePattern(ret.value[k])
                 /\ IntOf(Slice1(ret.value[k])) = s + k - 1

\* a fridge range was resolved to several codes, one of them beyond F9
C4_Witness ==
    /\ ret.called /\ EndGiven
    /\ FridgePattern(start_loc) /\ FridgePattern(end_str)
    /\ Len(ret.value) >= 3
    /\ \E k \in 1..Len(ret.value) : IntOf(Slice1(ret.value[k])) > FridgeSlots

\* C5: for start R<r>C<a> and end R<r>C<b> of the same row r, the result is
\* R<r>C<a>, ..., R<r>C<b>: one code for every column of a..b, ascending,
\* all of row r.
C5_SameRow ==
    (/\ ret.called /\ EndGiven /\ ~StartsWithF(start_loc)
     /\ ReMatch(start_loc).matched /\ ReMatch(end_str).matched
     /\ ReMatch(start_loc).row = ReMatch(end_str).row)
    => LET r == ReMatch(start_loc).row
           a == ReMatch(start_loc).col
           b == ReMatch(end_str).col
       IN  /\ ~ret.raised
           /\ Len(ret.value) = SpanLen(a, b)
           /\ \A k \in 1..Len(ret.value) :
                 /\ CellarPattern(ret.value[k])
                 /\ ReMatch(ret.value[k]).row = r
                 /\ ReMatch(ret.value[k]).col = a + k - 1
                 /\ ret.value[k] = <<"R">> \o Str(r) \o <<"C">> \o Str(a + k - 1)

\* a same-row cellar range was resolved to three codes or more
C5_Witness ==
    /\ ret.called /\ EndGiven
    /\ CellarPattern(start_loc) /\ CellarPattern(end_str)
    /\ ReMatch(start_loc).row = ReMatch(end_str).row
    /\ Len(ret.value) >= 3

\* C6: when both codes parse as cellar codes and their rows differ, the
\* result is [start_code], whatever the columns and whichever row is larger.
C6_CrossRow ==
    (/\ ret.called /\ EndGiven /\ ~StartsWithF(start_loc)
     /\ ReMatch(start_loc).matched /\ ReMatch(end_str).matched
     /\ ReMatch(start_loc).row # ReMatch(end_str).row)
    => (~ret.raised /\ ret.value = <<start_loc>>)

\* a cross-row range whose end row is the smaller one and whose end column
\* is the larger one was resolved
C6_Witness ==
    /\ ret.called /\ EndGiven
    /\ CellarPattern(start_loc) /\ CellarPattern(end_str)
    /\ ReMatch(start_loc).row > ReMatch(end_str).row
    /\ ReMatch(start_loc).col < ReMatch(end_str).col
    /\ ret.value = <<start_loc>>

\* C9: whenever parse_location_range returns for location codes in their
\* canonical spelling (F<n>, R<r>C<c>), the result is non-empty and its
\* first element is start_code, also when the end lies before the start.
C9_NonEmpty ==
    (/\ ret.called /\ ~ret.raised
     /\ start_loc \in FridgeCodes \cup CellarCodes
     /\ IsNa(end_loc) \/ end_str \in FridgeCodes \cup CellarCodes)
    => (Len(ret.value) >= 1 /\ ret.value[1] = start_loc)

----------------------------------------------------------------------------
(* Claims about the migration run, checked under Spec and SpecRegen *)

\* the physical layout, written out: zone, code, row and column of every slot
Layout ==
    { [zone |-> "fridge", location_code |-> <<"F">> \o Str(i),
       row_num |-> IF i <= 4 THEN 1 ELSE 2, col_num |-> i] : i \in 1..9 }
    \cup
    { [zone |-> "cellar", location_code |-> <<"R">> \o Str(rc[1]) \o <<"C">> \o Str(rc[2]),
       row_num |-> rc[1], col_num |-> rc[2]] :
      rc \in { x \in (1..19) \X (1..9) : x[1] = 1 => x[2] <= 7 } }

\* a slot row without its occupant
Frame(s) == [zone |-> s.zone, location_code |-> s.location_code,
             row_num |-> s.row_num, col_num |-> s.col_num]

Frames(slots) == { Frame(s) : s \in slots }

SlotsExist == pc \in {"inventory", "reduce", "pairing", "summary", "done", "aborted"}


Occupied(slots) == { s \in slots : s.wine_id # None }

OccupiedBy(slots, wine_id) == { s \in slots : s.wine_id = Some(wine_id) }

\* the first n elements of seq, none when n <= 0
FirstN(seq, n) ==
    [k \in 1..(IF n <= 0 THEN 0 ELSE IF n < Len(seq) THEN n ELSE Len(seq)) |-> seq[k]]

RowDone == pc = "inventory" /\ last.processed /\ ~last.raised

\* C1: a row with a location runs the UPDATE for exactly the first
\* bottle_count codes that parse_location_range resolved, and its wine
\* occupies at most bottle_count slots (none when bottle_count is below 1),
\* for every integer bottle_count.
C1_BottleCountCap ==
    (RowDone /\ last.located)
    => /\ last.attempted = FirstN(last.locations, last.bottle_count)
       /\ Cardinality(OccupiedBy(db.slots, last.wine_id))
             <= (IF last.bottle_count < 0 THEN 0 ELSE last.bottle_count)

\* an inventory row is being imported: the next state is the one after it
RowStep == pc = "inventory" /\ pc' = "inventory" /\ rows_done' = rows_done + 1

\* C2: the slots are always exactly the slots of the layout, each code once;
\* and a row changes no slot but those whose code it attempted, and adds to
\* slots_filled one per attempt whose code is a slot's: an attempt on a code
\* that is no slot's changes nothing and is not counted.
C2_UnknownCodeNoOp ==
    /\ [](SlotsExist =>
            /\ Frames(db.slots) = Layout
            /\ Cardinality(db.slots) = Cardinality(Layout))
    /\ [][RowStep =>
            LET att == last'.attempted
                known == { k \in 1..Len(att) :
                             \E s \in db.slots : s.location_code = att[k] }
            IN  /\ \A s \in db.slots :
                      (\A k \in 1..Len(att) : att[k] # s.location_code)
                          => s \in db'.slots
                /\ Frames(db'.slots) = Frames(db.slots)
                /\ slots_filled' = slots_filled + Cardinality(known)
                /\ (known = {} => db'.slots = db.slots)]_vars

\* a row has run the UPDATE for codes none of which is a slot's, and
\* slots_filled is still 0
C2_Witness ==
    /\ RowDone /\ last.located
    /\ Len(last.attempted) >= 1
    /\ \A k \in 1..Len(last.attempted) :
          \A s \in db.slots : s.location_code # last.attempted[k]
    /\ slots_filled = 0

\* C7: the slots are the 9 fridge slots and the 169 cellar slots of the
\* layout, each code once, and a further run of generate_slots leaves the
\* slots table, occupants included, as it was.
C7_Idempotent ==
    /\ [](SlotsExist =>
            /\ Frames(db.slots) = Layout
            /\ Cardinality(db.slots) = 9 + 169
            /\ Cardinality({ s \in db.slots : s.zone = "fridge" }) = 9
            /\ Cardinality({ s.location_code : s \in db.slots }) = Cardinality(db.slots))
    /\ [][RegenerateSlots => (db'.slots = db.slots /\ committed'.slots = db.slots)]_vars

\* generate_slots has run again on a table in which wines occupy slots
C7_Witness == generated >= 2 /\ Occupied(db.slots) # {}

ImportEmpty(d) ==
    /\ d.wines = <<>>
    /\ Occupied(d.slots) = {}
    /\ d.reduce_now = {}
    /\ d.pairing_rules = {}

\* C8: when a row of any import stage fails, nothing the import wrote is
\* left committed: no wine, no slot occupancy, no reduce-now entry, no
\* pairing rule.
C8_SingleCommit == pc = "aborted" => ImportEmpty(committed)

\* C8 as amended: commits happen only where a stage ends, and commit the
\* whole working state; a failing row aborts the run and discards what its
\* own stage wrote, while all that the earlier stages wrote stays committed.
C8_StageCommit ==
    /\ [][committed' # committed => (pc' # pc /\ committed' = db')]_vars
    /\ [][pc' = "aborted" =>
            /\ committed' = committed
            /\ db' = committed
            /\ pc \in {"inventory", "reduce", "pairing"}
            /\ Frames(committed.slots) = Layout
            /\ pc = "inventory" => ImportEmpty(committed)
            /\ pc = "reduce" =>
                  /\ committed.wines = db.wines
                  /\ committed.slots = db.slots
                  /\ committed.reduce_now = {}
                  /\ committed.pairing_rules = {}
            /\ pc = "pairing" =>
                  /\ committed.wines = db.wines
                  /\ committed.slots = db.slots
                  /\ committed.reduce_now = db.reduce_now
                  /\ committed.pairing_rules = {}]_vars

\* the run was aborted after the inventory stage, whose wines and slot
\* occupancies are in the file
C8_Witness ==
    /\ pc = "aborted"
    /\ committed.wines # <<>>
    /\ Occupied(committed.slots) # {}

----------------------------------------------------------------------------
(* Claim about extract_text_from_pdf, checked under SpecOcr *)

\* C10: for every combination of the flags, of force_ocr and of the text
\* length, the call returns: the PyMuPDF result when PyMuPDF is available,
\* force_ocr is off and the text is longer than 100 characters; otherwise
\* the EasyOCR result when EasyOCR and pdf2image are available; otherwise
\* the PyMuPDF result when PyMuPDF is available; otherwise the failure
\* shape.  Whenever check_dependencies reports available, the result has
\* the success shape.
C10_AlwaysReturns ==
    ocr.called =>
        /\ ~ocr.raised
        /\ ocr.value =
             IF HAS_PYMUPDF /\ ~force_ocr /\ text_length > 100 THEN PyMuPdfResult
             ELSE IF HAS_EASYOCR /\ HAS_PDF2IMAGE THEN EasyOcrResult
             ELSE IF HAS_PYMUPDF THEN PyMuPdfResult
             ELSE FailureResult
        /\ check_dependencies(HAS_PYMUPDF, HAS_EASYOCR, HAS_PDF2IMAGE)
              => ocr.value.success

====
